---- MODULE Spec2Model ----
(***************************************************************************)
(* django_messages: the request handlers of views.py (compose, reply,      *)
(* delete, undelete, view) over a store of Message rows, and the form      *)
(* field CommaSeparatedUserField.clean of fields.py.                       *)
(*                                                                         *)
(* Python values are encoded as follows.                                   *)
(*   - a str is a sequence of one-character strings;                       *)
(*   - an optional value (None or v) is the sequence <<>> or <<v>>;        *)
(*   - a User is its primary key; a list of users is a sequence of keys;   *)
(*   - a Message row is a record; its id is its index in store.            *)
(***************************************************************************)
EXTENDS Integers, Sequences, FiniteSets, TLC

VARIABLES
    store,      \* the Message table: store[id] is the row with that id
    req,        \* the last request handled: handler, user, URL arguments
    resp,       \* the response to it
    pending,    \* per worker process: its request, loaded and not yet saved
    cin,        \* the arguments of a call of CommaSeparatedUserField.clean
    cout        \* the outcome of that call

vars == <<store, req, resp, pending, cin, cout>>

-----------------------------------------------------------------------------
(* Bounds of the model.                                                    *)

\* The store holds at most MaxMsgs rows.
MaxMsgs == 1
\* The strings given to clean have at most MaxLen characters.
MaxLen == 4

\* auth.User rows: the primary keys of the existing users.
Users == {1, 2, 3}

None == <<>>
Some(v) == <<v>>

-----------------------------------------------------------------------------
(* Python str and int helpers.                                             *)

Digits == <<"0", "1", "2", "3", "4", "5", "6", "7", "8", "9">>

IsDigit(c) == \E i \in 1..Len(Digits) : Digits[i] = c

DigitValue(c) == (CHOOSE i \in 1..Len(Digits) : Digits[i] = c) - 1

\* All strings over alphabet of length at most n.
StringsOver(alphabet, n) == UNION {[1..k -> alphabet] : k \in 0..n}

\* s.split(sep): the segments between the occurrences of sep ("" gives [""]).
RECURSIVE split(_, _)
split(s, sep) ==
    IF \E i \in 1..Len(s) : s[i] = sep
    THEN LET i == CHOOSE k \in 1..Len(s) :
                      s[k] = sep /\ \A j \in 1..(k - 1) : s[j] # sep
         IN  <<SubSeq(s, 1, i - 1)>> \o split(SubSeq(s, i + 1, Len(s)), sep)
    ELSE <<s>>

\* s.strip(): s without its leading and trailing whitespace.
RECURSIVE strip(_)
strip(s) ==
    IF s = <<>> THEN s
    ELSE IF Head(s) = " " THEN strip(Tail(s))
    ELSE IF s[Len(s)] = " " THEN strip(SubSeq(s, 1, Len(s) - 1))
    ELSE s

\* int(s) succeeds on a non-empty string of digits (s is already stripped).
int_ok(s) == s # <<>> /\ \A i \in 1..Len(s) : IsDigit(s[i])

RECURSIVE int(_)
int(s) ==
    IF s = <<>> THEN 0
    ELSE 10 * int(SubSeq(s, 1, Len(s) - 1)) + DigitValue(s[Len(s)])

\* str(n) for n >= 0: the decimal digits of n, without leading zeros.
RECURSIVE str(_)
str(n) == IF n < 10 THEN <<Digits[n + 1]>> ELSE str(n \div 10) \o <<Digits[(n % 10) + 1]>>

Range(q) == {q[i] : i \in 1..Len(q)}

\* The lists that hold each element of the set S once (a query's result in
\* any row order).
ListsOf(S) == {q \in [1..Cardinality(S) -> S] : Range(q) = S}

-----------------------------------------------------------------------------
(* fields.py: CommaSeparatedUserField.clean                                *)

\* A call's outcome: kind is "return" (value: the list returned), "empty"
\* (the '' returned for an empty value), "ValidationError" (msg, incorrect)
\* or the name of the exception that escapes.
Outcome(kind, value, msg, incorrect) ==
    [kind |-> kind, value |-> value, msg |-> msg, incorrect |-> incorrect]

\* forms.Field.clean(value): a required field rejects the empty value.
field_clean_raises(required, value) ==
    required /\ ((value.type = "str" /\ value.s = <<>>) \/ (value.type = "list" /\ value.l = <<>>))

\* ids_set: the stripped, non-empty segments of value.
\* (the segments kept without stripping them)
ids_set_unstripped(s) ==
    LET ids == Range(split(s, ","))
    IN  {x \in ids : strip(x) # <<>>}

ids_set_of(s) ==
    LET ids == Range(split(s, ","))
    IN  {strip(uid) : uid \in {x \in ids : strip(x) # <<>>}}

\* User.objects.filter(pk__in=ids): the keys are converted with int(), then
\* matched against the existing users.
filter_raises(ids) == \E uid \in ids : ~int_ok(uid)
filter_pk_in(ids) == {u \in Users : \E uid \in ids : int(uid) = u}

\* unknown_ids = ids_set ^ set(str(user.pk) for user in users)
unknown_ids_of(ids, users) ==
    LET found == {str(users[i]) : i \in 1..Len(users)}
    IN  (ids \ found) \cup (found \ ids)

\* The loop over users: the first user the filter rejects is removed from
\* users, and then r.gk is read: User has no attribute gk.
filter_loop_raises(recipient_filter, users) ==
    /\ recipient_filter # None
    /\ \E i \in 1..Len(users) : users[i] \in recipient_filter[1]

\* value: [type: "str" or "list", s: the str, l: the list];
\* recipient_filter: None or Some(the set of users it returns False for);
\* users: the list the query returns.
clean(value, required, recipient_filter, users) ==
    IF field_clean_raises(required, value)
    THEN Outcome("ValidationError", <<>>, "required", {})
    ELSE IF (value.type = "str" /\ value.s = <<>>) \/ (value.type = "list" /\ value.l = <<>>)
    THEN Outcome("empty", <<>>, "", {})
    ELSE IF value.type = "list"
    THEN Outcome("return", value.l, "", {})
    ELSE LET ids_set == ids_set_of(value.s) IN
         IF filter_raises(ids_set)
         THEN Outcome("ValueError", <<>>, "", {})
         ELSE LET unknown_ids == unknown_ids_of(ids_set, users) IN
              IF filter_loop_raises(recipient_filter, users)
              THEN Outcome("AttributeError", <<>>, "", {})
              ELSE IF unknown_ids # {}
              THEN Outcome("ValidationError", <<>>, "incorrect", unknown_ids)
              ELSE Outcome("return", users, "", {})

\* The results the query of clean can give: the found users in any order.
query_results(value) ==
    IF value.type = "str" /\ ~filter_raises(ids_set_of(value.s))
    THEN ListsOf(filter_pk_in(ids_set_of(value.s)))
    ELSE {<<>>}

-----------------------------------------------------------------------------
(* The Message table and the forms the handlers use.                       *)

\* A new Message row: unread, deleted by nobody.
Message(sender, recipient) ==
    [sender |-> sender, recipient |-> recipient, read_at |-> None,
     sender_deleted_at |-> None, recipient_deleted_at |-> None]

\* get_object_or_404(Message, id=message_id) finds a row.
exists(message_id) == message_id \in DOMAIN store

StrValue(s) == [type |-> "str", s |-> s, l |-> <<>>]

\* ComposeForm(request.POST, recipient_filter=...): the recipient field is a
\* required CommaSeparatedUserField; data.other_ok says that the subject and
\* the body validate.
form_recipient(data, recipient_filter, users) ==
    clean(StrValue(data.recipient), TRUE, recipient_filter, users)

\* form.is_valid() lets an exception other than ValidationError escape.
form_raises(data, recipient_filter, users) ==
    form_recipient(data, recipient_filter, users).kind \in {"ValueError", "AttributeError"}

form_is_valid(data, recipient_filter, users) ==
    data.other_ok /\ form_recipient(data, recipient_filter, users).kind = "return"

\* form.save(sender=...): one new row for each recipient.
form_save(rows, sender, recipients) ==
    rows \o [i \in 1..Len(recipients) |-> Message(sender, recipients[i])]

-----------------------------------------------------------------------------
(* views.py                                                                *)

InboxUrl == "/messages/inbox/"

\* A request: the handler and the method (op), request.user, the arguments
\* of the URL (message_id, or 0; recipient; success_url), the next parameter
\* of the query string and the time datetime.datetime.now() gives (0 where
\* the handler does not read it).
Request(op, user, message_id, now, recipient, success_url, next) ==
    [op |-> op, user |-> user, message_id |-> message_id, now |-> now,
     recipient |-> recipient, success_url |-> success_url, next |-> next]

\* The response. status: "ok" (a template is rendered), "redirect" (to url),
\* "notfound" (Http404) or "error" (another exception escapes); initial: the
\* users the form's recipient field starts with; valid: form.is_valid().
Response(status, url, initial, valid) ==
    [status |-> status, url |-> url, initial |-> initial, valid |-> valid]

NotFound == Response("notfound", "", {}, FALSE)
ServerError == Response("error", "", {}, FALSE)

\* The redirect target of compose, delete and undelete: success_url, which
\* defaults to the inbox, unless the query string has a next parameter.
\* (success_url given precedence over next)
redirect_target_success_first(success_url, next) ==
    IF success_url # None THEN success_url[1]
    ELSE IF next # None THEN next[1]
    ELSE InboxUrl

redirect_target(success_url, next) ==
    IF next # None THEN next[1]
    ELSE IF success_url # None THEN success_url[1]
    ELSE InboxUrl

\* reply's redirect target: success_url, which defaults to the inbox.
reply_target(success_url) == IF success_url # None THEN success_url[1] ELSE InboxUrl

\* compose, GET: the keys the recipient argument names.
compose_ids(recipient) ==
    LET segs == split(recipient, "+") IN {strip(segs[i]) : i \in 1..Len(segs)}

compose_get(user, recipient) ==
    /\ req' = Request("compose_get", user, 0, 0, recipient, None, None)
    /\ resp' =
         IF recipient = None
         THEN NotFound
         ELSE IF filter_raises(compose_ids(recipient[1]))
         THEN ServerError
         ELSE LET recipients == filter_pk_in(compose_ids(recipient[1])) IN
              IF recipients = {}
              THEN NotFound
              ELSE Response("ok", "", recipients, FALSE)
    /\ UNCHANGED <<store, pending, cin, cout>>

compose_post(user, data, recipient_filter, users, success_url, next) ==
    /\ req' = Request("compose_post", user, 0, 0, None, success_url, next)
    /\ IF form_raises(data, recipient_filter, users)
       THEN /\ resp' = ServerError
            /\ UNCHANGED store
       ELSE IF form_is_valid(data, recipient_filter, users)
       THEN /\ Len(store) + Len(users) <= MaxMsgs
            /\ store' = form_save(store, user, form_recipient(data, recipient_filter, users).value)
            /\ resp' = Response("redirect", redirect_target(success_url, next), {}, TRUE)
       ELSE /\ resp' = Response("ok", "", {}, FALSE)
            /\ UNCHANGED store
    /\ UNCHANGED <<pending, cin, cout>>

\* reply: only the sender or the recipient of the parent may reply.
reply_allowed(parent, user) == ~(parent.sender # user /\ parent.recipient # user)

reply_get(user, message_id) ==
    /\ req' = Request("reply_get", user, message_id, 0, None, None, None)
    /\ resp' =
         IF ~exists(message_id) THEN NotFound
         ELSE IF ~reply_allowed(store[message_id], user) THEN NotFound
         ELSE Response("ok", "", {store[message_id].sender}, FALSE)
    /\ UNCHANGED <<store, pending, cin, cout>>

reply_post(user, message_id, data, recipient_filter, users, success_url) ==
    /\ req' = Request("reply_post", user, message_id, 0, None, success_url, None)
    /\ IF ~exists(message_id)
       THEN /\ resp' = NotFound
            /\ UNCHANGED store
       ELSE IF ~reply_allowed(store[message_id], user)
       THEN /\ resp' = NotFound
            /\ UNCHANGED store
       ELSE IF form_raises(data, recipient_filter, users)
       THEN /\ resp' = ServerError
            /\ UNCHANGED store
       ELSE IF form_is_valid(data, recipient_filter, users)
       THEN /\ Len(store) + Len(users) <= MaxMsgs
            /\ store' = form_save(store, user, form_recipient(data, recipient_filter, users).value)
            /\ resp' = Response("redirect", reply_target(success_url), {}, TRUE)
       ELSE /\ resp' = Response("ok", "", {}, FALSE)
            /\ UNCHANGED store
    /\ UNCHANGED <<pending, cin, cout>>

\* delete: the row with the deletion marker of each side user occupies set
\* to now, and whether any was set.
\* (a delete that marks both sides whoever of the two asks)
delete_marks_both(message, user, now) ==
    [message |-> IF message.sender = user \/ message.recipient = user
                 THEN [message EXCEPT !.sender_deleted_at = Some(now),
                                      !.recipient_deleted_at = Some(now)]
                 ELSE message,
     deleted |-> message.sender = user \/ message.recipient = user]

delete_marks(message, user, now) ==
    LET m1 == IF message.sender = user
              THEN [message EXCEPT !.sender_deleted_at = Some(now)] ELSE message
        m2 == IF message.recipient = user
              THEN [m1 EXCEPT !.recipient_deleted_at = Some(now)] ELSE m1
    IN  [message |-> m2, deleted |-> message.sender = user \/ message.recipient = user]

delete(user, now, message_id, success_url, next) ==
    /\ req' = Request("delete", user, message_id, now, None, success_url, next)
    /\ IF ~exists(message_id)
       THEN /\ resp' = NotFound
            /\ UNCHANGED store
       ELSE LET r == delete_marks(store[message_id], user, now) IN
            IF r.deleted
            THEN /\ store' = [store EXCEPT ![message_id] = r.message]
                 /\ resp' = Response("redirect", redirect_target(success_url, next), {}, FALSE)
            ELSE /\ resp' = NotFound
                 /\ UNCHANGED store
    /\ UNCHANGED <<pending, cin, cout>>

\* undelete: the row with the deletion marker of each side user occupies
\* removed, and whether any was removed.
\* (an undelete that recovers both sides whoever of the two asks)
undelete_marks_both(message, user) ==
    [message |-> IF message.sender = user \/ message.recipient = user
                 THEN [message EXCEPT !.sender_deleted_at = None,
                                      !.recipient_deleted_at = None]
                 ELSE message,
     undeleted |-> message.sender = user \/ message.recipient = user]

undelete_marks(message, user) ==
    LET m1 == IF message.sender = user
              THEN [message EXCEPT !.sender_deleted_at = None] ELSE message
        m2 == IF message.recipient = user
              THEN [m1 EXCEPT !.recipient_deleted_at = None] ELSE m1
    IN  [message |-> m2, undeleted |-> message.sender = user \/ message.recipient = user]

undelete(user, message_id, success_url, next) ==
    /\ req' = Request("undelete", user, message_id, 0, None, success_url, next)
    /\ IF ~exists(message_id)
       THEN /\ resp' = NotFound
            /\ UNCHANGED store
       ELSE LET r == undelete_marks(store[message_id], user) IN
            IF r.undeleted
            THEN /\ store' = [store EXCEPT ![message_id] = r.message]
                 /\ resp' = Response("redirect", redirect_target(success_url, next), {}, FALSE)
            ELSE /\ resp' = NotFound
                 /\ UNCHANGED store
    /\ UNCHANGED <<pending, cin, cout>>

\* view: the sender or the recipient may see the row; the recipient's first
\* view sets read_at.
\* (a view without the permission check)
view_allowed_anyone(message, user) == TRUE

view_allowed(message, user) == ~(message.sender # user /\ message.recipient # user)

\* (a view that stamps read_at at every view by the recipient)
view_marks_every_time(message, user, now) ==
    IF message.recipient = user
    THEN [message |-> [message EXCEPT !.read_at = Some(now)], save |-> TRUE]
    ELSE [message |-> message, save |-> FALSE]

view_marks(message, user, now) ==
    IF message.read_at = None /\ message.recipient = user
    THEN [message |-> [message EXCEPT !.read_at = Some(now)], save |-> TRUE]
    ELSE [message |-> message, save |-> FALSE]

view(user, now, message_id) ==
    /\ req' = Request("view", user, message_id, now, None, None, None)
    /\ IF ~exists(message_id)
       THEN /\ resp' = NotFound
            /\ UNCHANGED store
       ELSE IF ~view_allowed(store[message_id], user)
       THEN /\ resp' = NotFound
            /\ UNCHANGED store
       ELSE LET r == view_marks(store[message_id], user, now) IN
            /\ store' = IF r.save THEN [store EXCEPT ![message_id] = r.message] ELSE store
            /\ resp' = Response("ok", "", {}, FALSE)
    /\ UNCHANGED <<pending, cin, cout>>

-----------------------------------------------------------------------------
(* The requests the model issues.                                          *)

\* The ids requested. A store that is not full has no row for some of them.
MessageIds == 1..MaxMsgs

\* The times datetime.datetime.now() gives.
Times == {1, 2}

\* success_url as the URLconf gives it, and the next parameter of the query.
SuccessUrls == {None, Some("/done/")}
Nexts == {None, Some("/next/")}

\* The recipient argument of compose.
ComposeRecipients ==
    {None} \cup {Some(s) : s \in {<<"2", "+", "1">>, <<" ", "3">>, <<"0">>, <<"1", "+">>}}

Data(recipient, other_ok) == [recipient |-> recipient, other_ok |-> other_ok]

\* The POST data of compose with the recipient_filter of the URLconf: none,
\* or one that returns False for user 2.
ComposePosts ==
    {<<Data(<<"1">>, TRUE), None>>,
     <<Data(<<"2">>, TRUE), None>>,
     <<Data(<<"1", ",", " ", "2">>, TRUE), None>>,
     <<Data(<<"1">>, TRUE), Some({2})>>,
     <<Data(<<"2">>, TRUE), Some({2})>>,
     <<Data(<<"1">>, FALSE), None>>,
     <<Data(<<>>, TRUE), None>>,
     <<Data(<<"0">>, TRUE), None>>,
     <<Data(<<"x">>, TRUE), None>>}

\* The POST data of reply, with the recipient_filter of the URLconf.
ReplyPosts ==
    {<<Data(<<"1">>, TRUE), None>>,
     <<Data(<<"1">>, FALSE), None>>}

\* The users who ask for and send the compose form. The handlers only
\* compare users for equality, so the messages of user 1, to itself and to
\* another user, stand for those of every sender.
Composers == {1}

\* The worker processes that handle requests at once.
Workers == {1, 2}

\* A worker's request. phase: "idle", "loaded" (the row is read and the
\* copy assigned, the save is still to come) or "done"; message: the
\* worker's copy of the row; assigned: the fields the handler assigned.
Worker(phase, op, user, message_id, message, assigned, status) ==
    [phase |-> phase, op |-> op, user |-> user, message_id |-> message_id,
     message |-> message, assigned |-> assigned, status |-> status]

IdleWorker == Worker("idle", "none", 0, 0, Message(0, 0), {}, "none")

NoRequest == Request("none", 0, 0, 0, None, None, None)
NoResponse == Response("none", "", {}, FALSE)
NoCall == [value |-> StrValue(<<>>), required |-> FALSE,
           recipient_filter |-> None, users |-> <<>>]
NoOutcome == Outcome("none", <<>>, "", {})

Init ==
    /\ store = <<>>
    /\ req = NoRequest
    /\ resp = NoResponse
    /\ pending = [w \in Workers |-> IdleWorker]
    /\ cin = NoCall
    /\ cout = NoOutcome

ComposeGet == \E user \in Composers, recipient \in ComposeRecipients : compose_get(user, recipient)

ComposePost(success_urls, nexts) ==
    \E user \in Composers, post \in ComposePosts, success_url \in success_urls, next \in nexts :
        \E users \in query_results(StrValue(post[1].recipient)) :
            compose_post(user, post[1], post[2], users, success_url, next)

ReplyGet == \E user \in Users, message_id \in MessageIds : reply_get(user, message_id)

ReplyPost(success_urls) ==
    \E user \in Users, message_id \in MessageIds, post \in ReplyPosts,
       success_url \in success_urls :
        \E users \in query_results(StrValue(post[1].recipient)) :
            reply_post(user, message_id, post[1], post[2], users, success_url)

Delete(times, success_urls, nexts) ==
    \E user \in Users, now \in times, message_id \in MessageIds,
       success_url \in success_urls, next \in nexts :
        delete(user, now, message_id, success_url, next)

Undelete(success_urls, nexts) ==
    \E user \in Users, message_id \in MessageIds, success_url \in success_urls, next \in nexts :
        undelete(user, message_id, success_url, next)

View(times) ==
    \E user \in Users, now \in times, message_id \in MessageIds : view(user, now, message_id)

\* Requests handled one after the other, with the times and the redirect
\* arguments drawn from the given sets.
Requests(times, success_urls, nexts) ==
    \/ ComposeGet
    \/ ComposePost(success_urls, nexts)
    \/ ReplyGet
    \/ ReplyPost(success_urls)
    \/ Delete(times, success_urls, nexts)
    \/ Undelete(success_urls, nexts)
    \/ View(times)

\* Every handler, at any of the times, redirecting to the default target.
Next == Requests(Times, {None}, {None})

Spec == Init /\ [][Next]_vars

\* Every handler, at one time, with every combination of success_url and next.
NextRedirect == Requests({1}, SuccessUrls, Nexts)

SpecRedirect == Init /\ [][NextRedirect]_vars

-----------------------------------------------------------------------------
(* Requests handled by several worker processes at once. Each handler      *)
(* reads the row (get_object_or_404), assigns fields of its own copy and   *)
(* writes the whole row back (message.save()); the steps of two workers    *)
(* interleave.                                                             *)

Failed(op, user, message_id) ==
    Worker("done", op, user, message_id, Message(0, 0), {}, "notfound")

SidesOf(message, user) ==
    (IF message.sender = user THEN {"sender_deleted_at"} ELSE {})
        \cup (IF message.recipient = user THEN {"recipient_deleted_at"} ELSE {})

\* delete up to its save.
begin_delete(w, user, now, message_id) ==
    /\ pending[w].phase = "idle"
    /\ pending' = [pending EXCEPT ![w] =
         IF ~exists(message_id) THEN Failed("delete", user, message_id)
         ELSE LET r == delete_marks(store[message_id], user, now) IN
              IF r.deleted
              THEN Worker("loaded", "delete", user, message_id, r.message,
                          SidesOf(store[message_id], user), "none")
              ELSE Failed("delete", user, message_id)]
    /\ UNCHANGED <<store, req, resp, cin, cout>>

\* undelete up to its save.
begin_undelete(w, user, message_id) ==
    /\ pending[w].phase = "idle"
    /\ pending' = [pending EXCEPT ![w] =
         IF ~exists(message_id) THEN Failed("undelete", user, message_id)
         ELSE LET r == undelete_marks(store[message_id], user) IN
              IF r.undeleted
              THEN Worker("loaded", "undelete", user, message_id, r.message,
                          SidesOf(store[message_id], user), "none")
              ELSE Failed("undelete", user, message_id)]
    /\ UNCHANGED <<store, req, resp, cin, cout>>

\* view up to its save; a view that sets nothing is done at once.
begin_view(w, user, now, message_id) ==
    /\ pending[w].phase = "idle"
    /\ pending' = [pending EXCEPT ![w] =
         IF ~exists(message_id) THEN Failed("view", user, message_id)
         ELSE IF ~view_allowed(store[message_id], user) THEN Failed("view", user, message_id)
         ELSE LET r == view_marks(store[message_id], user, now) IN
              IF r.save
              THEN Worker("loaded", "view", user, message_id, r.message, {"read_at"}, "none")
              ELSE Worker("done", "view", user, message_id, r.message, {}, "ok")]
    /\ UNCHANGED <<store, req, resp, cin, cout>>

\* message.save(): every column of the row is written from the worker's copy.
save(w) ==
    /\ pending[w].phase = "loaded"
    /\ store' = [store EXCEPT ![pending[w].message_id] = pending[w].message]
    /\ pending' = [pending EXCEPT ![w].phase = "done",
                                  ![w].status = IF pending[w].op = "view"
                                                THEN "ok" ELSE "redirect"]
    /\ UNCHANGED <<req, resp, cin, cout>>

NextConc ==
    \/ ComposePost({None}, {None})
    \/ \E w \in Workers, user \in Users, now \in Times, message_id \in MessageIds :
           begin_delete(w, user, now, message_id)
    \/ \E w \in Workers, user \in Users, message_id \in MessageIds :
           begin_undelete(w, user, message_id)
    \/ \E w \in Workers, user \in Users, now \in Times, message_id \in MessageIds :
           begin_view(w, user, now, message_id)
    \/ \E w \in Workers : save(w)

SpecConc == Init /\ [][NextConc]_vars

-----------------------------------------------------------------------------
(* Calls of CommaSeparatedUserField.clean.                                 *)

\* The characters of the strings given to clean.
Alphabet == {"0", "1", "2", ",", " ", "x"}

\* The values given to clean: the strings, and a list of users.
CleanValues ==
    {StrValue(s) : s \in StringsOver(Alphabet, MaxLen)}
        \cup {[type |-> "list", s |-> <<>>, l |-> l] : l \in {<<>>, <<1>>, <<2, 1>>}}

\* recipient_filter: none, one that rejects nobody, one that rejects user 2.
CleanFilters == {None, Some({}), Some({2})}

InitClean ==
    /\ store = <<>>
    /\ req = NoRequest
    /\ resp = NoResponse
    /\ pending = [w \in Workers |-> IdleWorker]
    /\ cout = NoOutcome
    /\ \E value \in CleanValues, required \in BOOLEAN, recipient_filter \in CleanFilters :
          \E users \in query_results(value) :
              cin = [value |-> value, required |-> required,
                     recipient_filter |-> recipient_filter, users |-> users]

call_clean ==
    /\ cout = NoOutcome
    /\ cout' = clean(cin.value, cin.required, cin.recipient_filter, cin.users)
    /\ UNCHANGED <<store, req, resp, pending, cin>>

SpecClean == InitClean /\ [][call_clean]_vars

-----------------------------------------------------------------------------
(* Properties of the handlers.                                             *)

\* user is neither the sender nor the recipient of the row message_id, or
\* there is no such row.
Outsider(user, message_id) ==
    \/ ~exists(message_id)
    \/ (store[message_id].sender # user /\ store[message_id].recipient # user)

MessageOps == {"view", "reply_get", "reply_post", "delete", "undelete"}

\* The other rows are as before, and there are no more rows.
OthersUnchanged(message_id) ==
    /\ DOMAIN store' = DOMAIN store
    /\ \A k \in DOMAIN store : k # message_id => store'[k] = store[k]

\* C1: a view, reply (GET or POST), delete or undelete by a user who is
\* neither the sender nor the recipient of the message, or for an id no
\* message has, ends in Not Found and leaves the store as it is: no field of
\* a message changes and no message is created.
C1_OutsiderNotFound ==
    [][(req'.op \in MessageOps /\ Outsider(req'.user, req'.message_id))
          => (resp'.status = "notfound" /\ store' = store)]_vars

\* A user who is neither the sender nor the recipient of an existing message
\* has asked to delete it and was answered Not Found.
C1_Witness ==
    /\ req.op = "delete" /\ exists(req.message_id)
    /\ Outsider(req.user, req.message_id)
    /\ resp.status = "notfound"

\* C2: read_at of a new message is null; it becomes non-null only in a view
\* by the recipient, which sets it to the time of that request; the view of
\* an unread message by its recipient does set it; once set it never
\* changes; a view by a sender who is not the recipient leaves it as it is.
C2_ReadAtTracking ==
    [][/\ Len(store') >= Len(store)
       /\ \A m \in DOMAIN store' \ DOMAIN store : store'[m].read_at = None
       /\ \A m \in DOMAIN store :
            /\ store[m].read_at # None => store'[m].read_at = store[m].read_at
            /\ (store[m].read_at = None /\ store'[m].read_at # None)
                  => /\ req'.op = "view" /\ req'.message_id = m
                     /\ req'.user = store[m].recipient
                     /\ store'[m].read_at = Some(req'.now)
            /\ (req'.op = "view" /\ req'.message_id = m /\ req'.user = store[m].recipient
                   /\ store[m].read_at = None)
                  => /\ resp'.status = "ok"
                     /\ store'[m].read_at = Some(req'.now)
            /\ (req'.op = "view" /\ req'.message_id = m /\ req'.user # store[m].recipient)
                  => store'[m].read_at = store[m].read_at]_vars

\* The recipient has read a message at time 1 and views it again at time 2.
C2_Witness ==
    /\ req.op = "view" /\ req.now = 2 /\ exists(req.message_id)
    /\ store[req.message_id].recipient = req.user
    /\ store[req.message_id].sender # req.user
    /\ store[req.message_id].read_at = Some(1)

\* The row after a delete by user at now: the marker of each side user
\* occupies is now, everything else is as before.
Deleted(message, user, now) ==
    [message EXCEPT
        !.sender_deleted_at = IF message.sender = user THEN Some(now) ELSE @,
        !.recipient_deleted_at = IF message.recipient = user THEN Some(now) ELSE @]

Undeleted(message, user) ==
    [message EXCEPT
        !.sender_deleted_at = IF message.sender = user THEN None ELSE @,
        !.recipient_deleted_at = IF message.recipient = user THEN None ELSE @]

\* user has not deleted the row.
NotDeletedBy(message, user) ==
    /\ message.sender = user => message.sender_deleted_at = None
    /\ message.recipient = user => message.recipient_deleted_at = None

\* C4: an undelete by the sender or the recipient redirects and leaves the
\* marker of each side the user occupies null, the other marker, read_at
\* and the other messages as before; and when the request before it was a
\* delete of the same message by the same user, the row after the undelete
\* is the row not deleted by the user from which that delete gives the row
\* it wrote: the row before the delete, if the user had not deleted it.
C4_Undelete ==
    [][(req'.op = "undelete" /\ ~Outsider(req'.user, req'.message_id))
          => /\ resp'.status = "redirect"
             /\ store'[req'.message_id] = Undeleted(store[req'.message_id], req'.user)
             /\ OthersUnchanged(req'.message_id)
             /\ (req.op = "delete" /\ req.message_id = req'.message_id
                    /\ req.user = req'.user)
                   => /\ NotDeletedBy(store'[req'.message_id], req'.user)
                      /\ store[req.message_id]
                            = Deleted(store'[req'.message_id], req.user, req.now)]_vars

\* The sender has recovered a message that the recipient has read and keeps
\* in the trash.
C4_Witness ==
    /\ req.op = "undelete" /\ resp.status = "redirect" /\ exists(req.message_id)
    /\ store[req.message_id].sender = req.user
    /\ store[req.message_id].recipient # req.user
    /\ store[req.message_id].sender_deleted_at = None
    /\ store[req.message_id].recipient_deleted_at # None
    /\ store[req.message_id].read_at # None

\* C7: a GET of compose without a recipient argument displays the form.
C7_ComposeWithoutRecipient ==
    (req.op = "compose_get" /\ req.recipient = None) => resp.status = "ok"

\* C8: a delete or an undelete by the sender or the recipient, and a compose
\* POST with a valid form, redirect to the next parameter when the query has
\* one, else to success_url when it is given, else to the inbox; a delete or
\* undelete that ends in Not Found and a compose POST with an invalid form
\* do not redirect.
Target(success_url, next) ==
    IF next # None THEN next[1] ELSE IF success_url # None THEN success_url[1] ELSE InboxUrl

C8_RedirectPrecedence ==
    [][/\ req'.op \in {"delete", "undelete"} =>
            IF Outsider(req'.user, req'.message_id)
            THEN resp'.status = "notfound" /\ resp'.url = ""
            ELSE /\ resp'.status = "redirect"
                 /\ resp'.url = Target(req'.success_url, req'.next)
       /\ req'.op = "compose_post" =>
            IF resp'.valid
            THEN /\ resp'.status = "redirect"
                 /\ resp'.url = Target(req'.success_url, req'.next)
            ELSE /\ resp'.status \in {"ok", "error"} /\ resp'.url = ""
                 /\ store' = store]_vars

\* A delete with both a success_url and a next parameter has redirected to
\* the next parameter.
C8_Witness ==
    /\ req.op = "delete" /\ resp.status = "redirect"
    /\ req.success_url # None /\ req.next # None
    /\ resp.url = req.next[1]

-----------------------------------------------------------------------------
(* Properties of the handlers under concurrent requests.                   *)

\* C9: when a delete by the sender and a delete or a first view by the
\* recipient of the same message, a different user, have both saved, every
\* field either of them assigned holds the value it assigned.
C9_NoLostUpdate ==
    \A w1, w2 \in Workers :
        LET p1 == pending[w1]
            p2 == pending[w2]
        IN  (/\ w1 # w2
             /\ p1.phase = "done" /\ p2.phase = "done"
             /\ p1.assigned # {} /\ p2.assigned # {}
             /\ p1.message_id = p2.message_id
             /\ p1.op = "delete" /\ p2.op \in {"delete", "view"}
             /\ p1.user = store[p1.message_id].sender
             /\ p2.user = store[p2.message_id].recipient
             /\ p1.user # p2.user)
            => /\ \A f \in p1.assigned : store[p1.message_id][f] = p1.message[f]
               /\ \A f \in p2.assigned : store[p2.message_id][f] = p2.message[f]

-----------------------------------------------------------------------------
(* Properties of CommaSeparatedUserField.clean.                            *)

\* The call has been made.
Called == cout # NoOutcome

\* The non-empty, whitespace-stripped segments of s: the substrings that
\* hold no comma, neither start nor end with a space, and have only spaces
\* between them and the comma or the end of s on either side.
Segments(s) ==
    {SubSeq(s, i, j) : <<i, j>> \in
        {p \in (1..Len(s)) \X (1..Len(s)) :
            /\ p[1] <= p[2]
            /\ \A k \in p[1]..p[2] : s[k] # ","
            /\ s[p[1]] # " " /\ s[p[2]] # " "
            /\ \E a \in 0..(p[1] - 1) :
                  /\ a = 0 \/ s[a] = ","
                  /\ \A k \in (a + 1)..(p[1] - 1) : s[k] = " "
            /\ \E b \in (p[2] + 1)..(Len(s) + 1) :
                  /\ b = Len(s) + 1 \/ s[b] = ","
                  /\ \A k \in (p[2] + 1)..(b - 1) : s[k] = " "}}

\* The decimal string of a user's ID (the IDs of the model have one digit).
IdOf(u) == <<Digits[u + 1]>>

\* The users whose IDs the string holds.
Named == {u \in Users : IdOf(u) \in Segments(cin.value.s)}

\* Every non-empty stripped segment of the string is the ID of an existing
\* user, and the filter rejects none of these users.
AllKnownAndAccepted ==
    /\ cin.value.type = "str"
    /\ \A uid \in Segments(cin.value.s) : \E u \in Users : uid = IdOf(u)
    /\ cin.recipient_filter # None => Named \cap cin.recipient_filter[1] = {}

\* clean has returned a list that holds exactly the named users, each once.
ReturnsNamed ==
    /\ cout.kind = "return"
    /\ Range(cout.value) = Named
    /\ Len(cout.value) = Cardinality(Named)

\* C5, as claimed: for every string whose segments are IDs of existing users
\* that the filter accepts, clean returns the list of exactly those users.
C5_EveryString == (Called /\ AllKnownAndAccepted) => ReturnsNamed

\* C5, amended: the same for every such string that is not empty.
C5_NonEmptyString ==
    (Called /\ AllKnownAndAccepted /\ cin.value.s # <<>>) => ReturnsNamed

\* clean has returned both users, in the order of the query's result, for a
\* string that names them in the other order, with whitespace, and with a
\* filter that accepts both.
C5_Witness ==
    /\ Called /\ cin.value.s = <<"1", ",", " ", "2">> /\ cin.recipient_filter = Some({})
    /\ cout.kind = "return" /\ cout.value = <<2, 1>>

\* The named users the filter rejects.
Rejected ==
    IF cin.recipient_filter = None THEN {} ELSE Named \cap cin.recipient_filter[1]

\* C6: when every requested ID is the ID of an existing user and the filter
\* rejects at least one of the users found, clean raises the ValidationError
\* that names the rejected users.
C6_RejectedUserIsValidationError ==
    (/\ Called /\ cin.value.type = "str"
     /\ \A uid \in Segments(cin.value.s) : \E u \in Users : uid = IdOf(u)
     /\ Rejected # {})
        => /\ cout.kind = "ValidationError" /\ cout.msg = "incorrect"
           /\ cout.incorrect = {IdOf(u) : u \in Rejected}

====
